---- MODULE Spec2Model ----
(***************************************************************************)
(* Job lifecycle of the REST transcription server                          *)
(* (src/scenario4/server/app.py).                                          *)
(*                                                                         *)
(* The server is one asyncio event loop.  A coroutine can be suspended     *)
(* only where it waits: every `async with jobs_lock` block is one atomic   *)
(* step, and another coroutine may run before a coroutine gets the lock.   *)
(* A synchronous call (asr_model.transcribe, librosa.load) keeps the       *)
(* loop's thread: while the model call runs (inference # None) no other    *)
(* coroutine takes a step.                                                 *)
(*                                                                         *)
(* LockSpec follows the same server statement by statement inside its      *)
(* jobs_lock blocks.  VoiceSpec is one /ws/voice connection of             *)
(* src/scenario5/app.py, ProxySpec one /proxy/moshi connection of          *)
(* src/scenario6/app.py.                                                   *)
(***************************************************************************)
EXTENDS Integers, Sequences, FiniteSets, TLC

\* ---- bounds of the model -------------------------------------------------
\* the number of transcriptions the model lets clients start: submitted jobs
\* and /transcribe requests that got past validation, taken together
MaxJobs == 2
\* the most replies the LLM generates on one voice connection
MaxTurns == 11
\* the most frames the Moshi proxy forwards in one direction
MaxFrames == 2

JobIds == 1..MaxJobs

\* ---- Optional[...] values -------------------------------------------------
None == <<>>
Some(x) == <<x>>

\* ---- module constants (app.py 52-71) ------------------------------------
\* scenario5/app.py 390: the entries of chat_history that are kept
HistoryLimit == 20
SUPPORTED_MODELS == {"parakeet", "canary"}
SUPPORTED_LANGUAGES == {"en", "es", "de", "fr"}
AUDIO_EXTENSIONS == {".wav", ".mp3", ".flac"}

\* JobStatus (app.py 100-106)
JobStatus == {"pending", "processing", "completed", "failed", "cancelled"}

\* ---- request inputs -------------------------------------------------------
ModelInputs == {"parakeet", "canary", "whisper"}
LanguageInputs == {None, Some("xx")}
\* an uploaded file's name: <<stem, suffix>>
FilenameInputs == {<<"a", ".wav">>, <<"a", ".MP3">>, <<"a", ".txt">>}

\* Path(file.filename).suffix.lower() (app.py 511)
SuffixLower(filename) ==
    CASE filename[2] = ".MP3" -> ".mp3"
      [] OTHER -> filename[2]

\* ---- temp files -----------------------------------------------------------
\* tempfile.NamedTemporaryFile(delete=False, ...) (app.py 523, 165)
UploadPath(id) == [kind |-> "upload", id |-> id]
WavPath(id) == [kind |-> "wav", id |-> id]
\* the same, made by the /transcribe handler (app.py 698, 165)
SyncUploadPath(n) == [kind |-> "sync_upload", id |-> n]
SyncWavPath(n) == [kind |-> "sync_wav", id |-> n]

VARIABLES
    server,      \* "starting" | "serving" | "failed": the startup hook
    asr_models,  \* model key -> BOOLEAN: asr_models[key] is not None
    jobs,        \* job_id -> JobInfo
    tasks,       \* job_id -> the background task's position and locals
    files,       \* the temp files that exist
    inference,   \* Some(job) while that job's asr_model.transcribe call runs
    cancelAt,    \* job_id -> the task's position when its cancel was accepted
    invoked,     \* the jobs for which asr_model.transcribe has been called
    response,    \* the response of the request just handled, until it is sent
    sync_call,   \* Some(locals of the /transcribe handler) while its
                 \* asr_model.transcribe call runs
    sync_count,  \* the number of /transcribe requests that got past validation
    cleanups,    \* the paths the /transcribe handler has scheduled
                 \* cleanup_file for, in order
    loads        \* model key -> the number of from_pretrained calls that
                 \* returned a model for it

\* the lock sections of scenario4/server/app.py, statement by statement
VARIABLES
    jobs_lock,   \* asyncio.Lock(): TRUE while it is locked
    holders,     \* the coroutines inside an "async with jobs_lock" block
    at,          \* coroutine -> the line it is about to run
    seen         \* handler -> the answer it has built from what it read

lockVars == <<jobs_lock, holders, at, seen>>

\* scenario5/app.py: the locals of one /ws/voice connection's handler
VARIABLES
    voice_pc,      \* "receive" | "llm" | "tts": where voice_ws is suspended;
                   \* "closed" | "crashed": how it ended
    smart_mode,    \* the local smart_mode
    chat_history,  \* the local chat_history
    hypotheses,    \* the local hypotheses: None while it is unbound
    transcript,    \* the local transcript
    response_text, \* the local response_text
    turn,          \* the number of replies the LLM has generated
    voice_sent,    \* the messages sent for the message being handled
    voice_log      \* the lines logged for the message being handled

voiceVars == <<voice_pc, smart_mode, chat_history, hypotheses, transcript,
               response_text, turn, voice_sent, voice_log>>

\* scenario6/app.py: one /proxy/moshi connection
VARIABLES
    proxy_pc,      \* where ws_moshi_proxy is: "connect" | "gather" | "finally" | "done"
    stop_event,    \* stop_event.is_set()
    c2b,           \* where client_to_backend is suspended, "done" when it ended
    b2c,           \* where backend_to_client is suspended, "done" when it ended
    ws_backend,    \* the proxy's end of the backend connection
    ws_client,     \* the proxy's end of the client WebSocket
    backend_peer,  \* "up" | "gone": the Moshi backend
    client_peer,   \* "up" | "gone": the browser
    frames_up,     \* the frames forwarded to the backend
    frames_down    \* the frames forwarded to the client

proxyVars == <<proxy_pc, stop_event, c2b, b2c, ws_backend, ws_client,
               backend_peer, client_peer, frames_up, frames_down>>

\* the state of the /transcribe endpoint
syncVars == <<sync_call, sync_count, cleanups>>

\* the state the job service's handlers leave alone
otherVars == <<lockVars, voiceVars, proxyVars>>

vars == <<server, asr_models, jobs, tasks, files, inference,
          cancelAt, invoked, response, sync_call, sync_count, cleanups,
          loads, lockVars, voiceVars, proxyVars>>

NoResponse == [op |-> "none", job_id |-> None, code |-> 0, body |-> None]
Response(op, job_id, code, body) ==
    [op |-> op, job_id |-> job_id, code |-> code, body |-> body]

\* the locals of a coroutine that has ended are gone
DoneTask == [pc |-> "done"]

\* cleanup_file (app.py 175-181)
cleanup_file(fs, path) == fs \ {path}

\* datetime.now().isoformat(), as written into a job record: microsecond
\* timestamps of distinct events differ, and nothing compares the timestamps
\* of two records, so a reading is modelled by its rank among the readings
\* written into the record (created_at is the first)
FirstStamp == 0
Now(job) == IF job.completed_at = None THEN job.created_at + 1
            ELSE job.completed_at[1] + 1

\* the coroutines that use jobs_lock: a submission, its background task and
\* the handlers of the three job endpoints
Coroutines == {"submit", "task", "status", "result", "cancel"}
NoAnswer == [code |-> 0, body |-> None]
LockInit ==
    /\ jobs_lock = FALSE
    /\ holders = {}
    /\ at = [c \in Coroutines |->
               CASE c = "submit" -> "536" [] c = "task" -> "start"
                 [] c = "status" -> "573" [] c = "result" -> "592"
                 [] c = "cancel" -> "627"]
    /\ seen = [c \in {"status", "result", "cancel"} |-> NoAnswer]

\* lines 298-302: the connection is accepted
VoiceInit ==
    /\ voice_pc = "receive"
    /\ smart_mode = FALSE
    /\ chat_history = <<>>
    /\ hypotheses = None
    /\ transcript = ""
    /\ response_text = ""
    /\ turn = 0
    /\ voice_sent = <<>>
    /\ voice_log = <<>>

\* lines 286-310: the handler is entered; stop_event = asyncio.Event()
ProxyInit ==
    /\ proxy_pc = "connect"
    /\ stop_event = FALSE
    /\ c2b = "unborn"
    /\ b2c = "unborn"
    /\ ws_backend = "unborn"
    /\ ws_client = "connecting"
    /\ backend_peer = "up"
    /\ client_peer = "up"
    /\ frames_up = 0
    /\ frames_down = 0

\* ---- Init -----------------------------------------------------------------
Init ==
    /\ ProxyInit
    /\ LockInit
    /\ VoiceInit
    /\ server = "starting"
    /\ asr_models = [k \in SUPPORTED_MODELS |-> FALSE]
    /\ jobs = <<>>
    /\ tasks = <<>>
    /\ files = {}
    /\ inference = None
    /\ cancelAt = <<>>
    /\ invoked = {}
    /\ response = NoResponse
    /\ sync_call = None
    /\ sync_count = 0
    /\ cleanups = <<>>
    /\ loads = [k \in SUPPORTED_MODELS |-> 0]

\* the event loop is free to run a coroutine: the server is up, no synchronous
\* model call holds the loop's thread, and the last response has been sent
LoopFreeDuringInference == server = "serving" /\ response = NoResponse
LoopFree ==
    server = "serving" /\ inference = None /\ sync_call = None /\ response = NoResponse

\* uuid.uuid4() (app.py 519): an identifier no earlier call returned
LastIssuedId == IF jobs = <<>> THEN Cardinality(DOMAIN jobs) + 1
                ELSE Cardinality(DOMAIN jobs)
uuid4 == Cardinality(DOMAIN jobs) + 1

\* ---- get_or_load_model (app.py 184-225) ---------------------------------
\* outcome: what ASRModel.from_pretrained does when it is called
LoadOutcomes == {"ok", "raises"}

\* loaded: from_pretrained was called and returned a model (line 204)
LoadIgnoringCache(models, model_key, outcome) ==
    IF model_key \notin SUPPORTED_MODELS
    THEN [models |-> models, loaded |-> FALSE,
          raised |-> Some(<<"ValueError", "Unsupported model">>)]
    ELSE IF outcome = "ok"
    THEN [models |-> [models EXCEPT ![model_key] = TRUE], loaded |-> TRUE,
          raised |-> None]
    ELSE [models |-> models, loaded |-> FALSE,
          raised |-> Some(<<"OSError", "from_pretrained failed">>)]
StoreBeforeLoad(models, model_key, outcome) ==
    IF model_key \notin SUPPORTED_MODELS
    THEN [models |-> models, loaded |-> FALSE,
          raised |-> Some(<<"ValueError", "Unsupported model">>)]
    ELSE IF models[model_key]
    THEN [models |-> models, loaded |-> FALSE, raised |-> None]
    ELSE [models |-> [models EXCEPT ![model_key] = TRUE],
          loaded |-> outcome = "ok",
          raised |-> IF outcome = "ok" THEN None
                     ELSE Some(<<"OSError", "from_pretrained failed">>)]
get_or_load_model(models, model_key, outcome) ==
    IF model_key \notin SUPPORTED_MODELS
    THEN [models |-> models, loaded |-> FALSE,
          raised |-> Some(<<"ValueError", "Unsupported model">>)]
    ELSE IF models[model_key]
    THEN [models |-> models, loaded |-> FALSE, raised |-> None]
    ELSE IF outcome = "ok"
    THEN [models |-> [models EXCEPT ![model_key] = TRUE], loaded |-> TRUE,
          raised |-> None]
    ELSE [models |-> models, loaded |-> FALSE,
          raised |-> Some(<<"OSError", "from_pretrained failed">>)]

\* one more load of model_key is counted when from_pretrained returned
CountLoad(counts, model_key, r) ==
    IF r.loaded THEN [counts EXCEPT ![model_key] = @ + 1] ELSE counts

\* ---- startup hook load_model (app.py 411-431) ---------------------------
\* the hook re-raises a failed load: the application does not start
ServeWithoutModel ==
    /\ server = "starting"
    /\ \E o \in LoadOutcomes :
         LET r == get_or_load_model(asr_models, "parakeet", o) IN
           /\ asr_models' = r.models
           /\ loads' = CountLoad(loads, "parakeet", r)
           /\ server' = "serving"
    /\ UNCHANGED <<jobs, tasks, files, inference, cancelAt, invoked, response>>
    /\ UNCHANGED syncVars
    /\ UNCHANGED otherVars
load_model ==
    /\ server = "starting"
    /\ \E o \in LoadOutcomes :
         LET r == get_or_load_model(asr_models, "parakeet", o) IN
           /\ asr_models' = r.models
           /\ loads' = CountLoad(loads, "parakeet", r)
           /\ server' = IF r.raised = None THEN "serving" ELSE "failed"
    /\ UNCHANGED <<jobs, tasks, files, inference, cancelAt, invoked, response>>
    /\ UNCHANGED syncVars
    /\ UNCHANGED otherVars

\* ---- GET /health (app.py 457-470) ----------------------------------------
HealthResponse(models) ==
    LET parakeet_loaded == models["parakeet"]
        canary_loaded == models["canary"]
    IN [status |-> IF parakeet_loaded THEN "healthy"
                   ELSE "default_model_not_loaded",
        model_loaded |-> parakeet_loaded \/ canary_loaded,
        models |-> [parakeet |-> parakeet_loaded, canary |-> canary_loaded]]

health_check ==
    /\ LoopFree
    /\ response' = Response("health", None, 200, Some(HealthResponse(asr_models)))
    /\ UNCHANGED <<server, asr_models, loads, jobs, tasks, files, inference, cancelAt, invoked>>
    /\ UNCHANGED syncVars
    /\ UNCHANGED otherVars

\* ---- POST /transcribe/async (app.py 473-559) -----------------------------
\* the validation of lines 493-516: the 400 it raises, or the language to use
ValidateWithoutExtension(model, language, filename) ==
    IF model \notin SUPPORTED_MODELS
    THEN [code |-> 400, detail |-> "Unsupported model", language |-> language]
    ELSE IF model = "canary" /\ language # None /\ language[1] \notin SUPPORTED_LANGUAGES
    THEN [code |-> 400, detail |-> "Unsupported language", language |-> language]
    ELSE [code |-> 200, detail |-> "ok",
          language |-> IF model = "canary" /\ language = None THEN Some("en") ELSE language]
ValidateExtensionFirst(model, language, filename) ==
    IF SuffixLower(filename) \notin AUDIO_EXTENSIONS
    THEN [code |-> 400, detail |-> "Unsupported file format", language |-> language]
    ELSE ValidateWithoutExtension(model, language, filename)
ValidateWithoutLanguage(model, language, filename) ==
    IF model \notin SUPPORTED_MODELS
    THEN [code |-> 400, detail |-> "Unsupported model", language |-> language]
    ELSE IF SuffixLower(filename) \notin AUDIO_EXTENSIONS
    THEN [code |-> 400, detail |-> "Unsupported file format", language |-> language]
    ELSE [code |-> 200, detail |-> "ok", language |-> language]
validate_request(model, language, filename) ==
    IF model \notin SUPPORTED_MODELS
    THEN [code |-> 400, detail |-> "Unsupported model", language |-> language]
    ELSE IF model = "canary" /\ language # None /\ language[1] \notin SUPPORTED_LANGUAGES
    THEN [code |-> 400, detail |-> "Unsupported language", language |-> language]
    ELSE LET lang == IF model = "canary" /\ language = None THEN Some("en") ELSE language IN
         IF SuffixLower(filename) \notin AUDIO_EXTENSIONS
         THEN [code |-> 400, detail |-> "Unsupported file format", language |-> lang]
         ELSE [code |-> 200, detail |-> "ok", language |-> lang]

\* JobInfo(...) of lines 529-534
NewJobInfoWithTime(job_id, filename) ==
    [job_id |-> job_id, status |-> "pending", filename |-> filename,
     created_at |-> FirstStamp, completed_at |-> Some(FirstStamp),
     error |-> None, result |-> None]
NewJobInfo(job_id, filename) ==
    [job_id |-> job_id, status |-> "pending", filename |-> filename,
     created_at |-> FirstStamp, completed_at |-> None, error |-> None, result |-> None]

\* the coroutine background_tasks.add_task schedules (lines 540-548, 244)
NewTask(job_id, filename, model, language) ==
    [pc |-> "check1", audio_path |-> UploadPath(job_id),
     suffix |-> SuffixLower(filename), filename |-> filename,
     model_key |-> model, language |-> language,
     temp_wav |-> None, output |-> "none", exc |-> None, result |-> None]

\* the response to a submission; request is the form the client sent
SubmitResponse(request, job_id, code, body) ==
    [op |-> "submit", job_id |-> job_id, code |-> code, body |-> body,
     request |-> request]

\* lines 523-526: NamedTemporaryFile(delete=False) makes the upload's temp
\* file, or raises before a file exists
SaveOutcomes == {"ok", "raises"}

\* jobs[job_id] = job_info (line 537): a store with the key set, whatever it held
StoreInsert(store, key, value) ==
    [k \in DOMAIN store \cup {key} |-> IF k = key THEN value ELSE store[k]]

transcribe_audio_async(model, language, filename) ==
    /\ LoopFree
    /\ LET v == validate_request(model, language, filename)
           request == [model |-> model, language |-> language, filename |-> filename] IN
       IF v.code # 200
       THEN /\ response' = SubmitResponse(request, None, v.code, Some(v.detail))
            /\ UNCHANGED <<jobs, tasks, files, cancelAt>>
       ELSE \E o \in SaveOutcomes :
            IF o = "raises"
            THEN /\ response' = SubmitResponse(request, None, 500, Some("Failed to start job"))
                 /\ UNCHANGED <<jobs, tasks, files, cancelAt>>
            ELSE /\ Cardinality(DOMAIN jobs) + sync_count < MaxJobs
                 /\ LET job_id == uuid4 IN
                      /\ files' = files \cup {UploadPath(job_id)}
                      /\ jobs' = StoreInsert(jobs, job_id, NewJobInfo(job_id, filename))
                      /\ tasks' = StoreInsert(tasks, job_id,
                                              NewTask(job_id, filename, model, v.language))
                      /\ cancelAt' = StoreInsert(cancelAt, job_id, "none")
                      /\ response' = SubmitResponse(request, Some(job_id), 200, Some("pending"))
    /\ UNCHANGED <<server, asr_models, loads, inference, invoked>>
    /\ UNCHANGED syncVars
    /\ UNCHANGED otherVars

\* ---- GET /jobs/{job_id}/status (app.py 562-578) --------------------------
StatusWithFreshTime(job_id) ==
    IF job_id \notin DOMAIN jobs
    THEN Response("status", Some(job_id), 404, Some("Job not found"))
    ELSE Response("status", Some(job_id), 200,
                  Some([jobs[job_id] EXCEPT !.created_at = Now(jobs[job_id])]))
get_job_status_response(job_id) ==
    IF job_id \notin DOMAIN jobs
    THEN Response("status", Some(job_id), 404, Some("Job not found"))
    ELSE Response("status", Some(job_id), 200, Some(jobs[job_id]))

get_job_status(job_id) ==
    /\ LoopFree
    /\ response' = get_job_status_response(job_id)
    /\ UNCHANGED <<server, asr_models, loads, jobs, tasks, files, inference, cancelAt, invoked>>
    /\ UNCHANGED syncVars
    /\ UNCHANGED otherVars

\* ---- GET /jobs/{job_id}/result (app.py 581-610) --------------------------
ResultWithoutCancelledCheck(job_id) ==
    IF job_id \notin DOMAIN jobs
    THEN Response("result", Some(job_id), 404, Some("Job not found"))
    ELSE LET job == jobs[job_id] IN
         IF job.status \in {"pending", "processing"}
         THEN Response("result", Some(job_id), 400, Some("Job not yet completed"))
         ELSE IF job.status = "failed"
         THEN Response("result", Some(job_id), 500, job.error)
         ELSE IF job.result = None
         THEN Response("result", Some(job_id), 500,
                       Some("Job completed but result not available"))
         ELSE Response("result", Some(job_id), 200, job.result)

get_job_result_response(job_id) ==
    IF job_id \notin DOMAIN jobs
    THEN Response("result", Some(job_id), 404, Some("Job not found"))
    ELSE LET job == jobs[job_id] IN
         IF job.status \in {"pending", "processing"}
         THEN Response("result", Some(job_id), 400, Some("Job not yet completed"))
         ELSE IF job.status = "failed"
         THEN Response("result", Some(job_id), 500, job.error)
         ELSE IF job.status = "cancelled"
         THEN Response("result", Some(job_id), 400, Some("Job was cancelled"))
         ELSE IF job.result = None
         THEN Response("result", Some(job_id), 500,
                       Some("Job completed but result not available"))
         ELSE Response("result", Some(job_id), 200, job.result)

get_job_result(job_id) ==
    /\ LoopFree
    /\ response' = get_job_result_response(job_id)
    /\ UNCHANGED <<server, asr_models, loads, jobs, tasks, files, inference, cancelAt, invoked>>
    /\ UNCHANGED syncVars
    /\ UNCHANGED otherVars

\* ---- POST /jobs/{job_id}/cancel (app.py 613-645) -------------------------
\* line 633: the statuses a job cannot be cancelled in
CompletedOrCancelled == {"completed", "cancelled"}
NotCancellable == {"completed", "failed", "cancelled"}

\* lines 640-641
CancelledJobWithError(job) ==
    [job EXCEPT !.status = "cancelled", !.completed_at = Some(Now(job)),
                !.error = Some("Job was cancelled")]
CancelledWithoutTime(job) == [job EXCEPT !.status = "cancelled"]
CancelledJob(job) ==
    [job EXCEPT !.status = "cancelled", !.completed_at = Some(Now(job))]

cancel_job(job_id) ==
    /\ LoopFree
    /\ IF job_id \notin DOMAIN jobs
       THEN /\ response' = Response("cancel", Some(job_id), 404, Some("Job not found"))
            /\ UNCHANGED <<jobs, cancelAt>>
       ELSE IF jobs[job_id].status \in NotCancellable
       THEN /\ response' = Response("cancel", Some(job_id), 400, Some("Cannot cancel job"))
            /\ UNCHANGED <<jobs, cancelAt>>
       ELSE /\ jobs' = [jobs EXCEPT ![job_id] = CancelledJob(jobs[job_id])]
            /\ cancelAt' = [cancelAt EXCEPT ![job_id] = tasks[job_id].pc]
            /\ response' = Response("cancel", Some(job_id), 200, Some("cancelled"))
    /\ UNCHANGED <<server, asr_models, loads, tasks, files, inference, invoked>>
    /\ UNCHANGED syncVars
    /\ UNCHANGED otherVars

\* ---- convert_to_wav (app.py 152-172) -------------------------------------
\* outcome: "ok"; "load_raises" (librosa.load raises, no file yet);
\* "write_raises" (sf.write raises after NamedTemporaryFile made the file)
ConvertOutcomes == {"ok", "load_raises", "write_raises"}

\* audio_path is the file to convert, new_wav the name NamedTemporaryFile gives
convert_to_wav_at(fs, audio_path, new_wav, suffix, outcome) ==
    IF suffix = ".wav"
    THEN [files |-> fs, path |-> Some(audio_path)]
    ELSE IF outcome = "ok"
    THEN [files |-> fs \cup {new_wav}, path |-> Some(new_wav)]
    ELSE IF outcome = "load_raises"
    THEN [files |-> fs, path |-> None]
    ELSE [files |-> fs \cup {new_wav}, path |-> None]

\* the call of line 264, on a job's upload
convert_to_wav(fs, job_id, suffix, outcome) ==
    convert_to_wav_at(fs, UploadPath(job_id), WavPath(job_id), suffix, outcome)

\* ---- process_transcription_job (app.py 228-408) --------------------------
\* The coroutine can be suspended where it waits for jobs_lock (253, 273,
\* 314, 370, 399); the code from one of these points to the next is one step.
\* pc names the lock section the task is about to enter.

\* what the three checkpoints read (254, 274, 315)
SkipCheck(job) == FALSE
CancelledBeforeStart(job) == job.status = "cancelled"
CancelledDuringPreprocessing(job) == job.status = "cancelled"
CancelledAfterTranscription(job) == job.status = "cancelled"

\* lines 404-408 (and 256, 276-278, 317-319, which remove the same files)
CleanupTemps(fs, task) ==
    LET fs1 == cleanup_file(fs, task.audio_path) IN
    IF task.temp_wav # None THEN cleanup_file(fs1, task.temp_wav[1]) ELSE fs1

\* the task ends: the finally block has run
EndTask(job_id, task) ==
    /\ files' = CleanupTemps(files, task)
    /\ tasks' = [tasks EXCEPT ![job_id] = DoneTask]

\* an exception reaches line 390: the task is about to enter the lock of 399
LoseException(job_id, task, type, msg) ==
    tasks' = [tasks EXCEPT ![job_id] = [task EXCEPT !.pc = "lost"]]
Raise(job_id, task, type, msg) ==
    tasks' = [tasks EXCEPT ![job_id] = [task EXCEPT !.pc = "except",
                                                   !.exc = Some(<<type, msg>>)]]

\* lines 252-270: first checkpoint and status = processing under one lock,
\* then the conversion
Checkpoint1(job_id) ==
    /\ LoopFree
    /\ tasks[job_id].pc = "check1"
    /\ IF CancelledBeforeStart(jobs[job_id])
       THEN /\ EndTask(job_id, tasks[job_id])
            /\ UNCHANGED jobs
       ELSE /\ jobs' = [jobs EXCEPT ![job_id].status = "processing"]
            /\ \E o \in ConvertOutcomes :
                 LET task == tasks[job_id]
                     r == convert_to_wav(files, job_id, task.suffix, o) IN
                   /\ task.suffix = ".wav" => o = "ok"
                   /\ files' = r.files
                   /\ IF task.suffix = ".wav"
                      THEN tasks' = [tasks EXCEPT ![job_id].pc = "check2"]
                      ELSE IF r.path = None
                      THEN Raise(job_id, task, "Exception", "Audio conversion failed")
                      ELSE tasks' = [tasks EXCEPT ![job_id].pc = "check2",
                                                  ![job_id].temp_wav = r.path]
    /\ UNCHANGED <<server, asr_models, loads, inference, cancelAt, invoked, response>>
    /\ UNCHANGED syncVars
    /\ UNCHANGED otherVars

\* lines 272-302: second checkpoint; then the model is loaded, the arguments
\* are built and asr_model.transcribe is entered
Checkpoint2(job_id) ==
    /\ LoopFree
    /\ tasks[job_id].pc = "check2"
    /\ IF CancelledDuringPreprocessing(jobs[job_id])
       THEN /\ EndTask(job_id, tasks[job_id])
            /\ UNCHANGED <<asr_models, loads, inference, invoked>>
       ELSE /\ UNCHANGED files
            /\ \E o \in LoadOutcomes :
                 LET task == tasks[job_id]
                     r == get_or_load_model(asr_models, task.model_key, o) IN
                   /\ asr_models' = r.models
                   /\ loads' = CountLoad(loads, task.model_key, r)
                   /\ IF r.raised # None
                      THEN /\ Raise(job_id, task, r.raised[1][1], r.raised[1][2])
                           /\ UNCHANGED <<inference, invoked>>
                      ELSE IF /\ task.model_key = "canary"
                              /\ task.language # None
                              /\ task.language[1] \notin SUPPORTED_LANGUAGES
                      THEN /\ Raise(job_id, task, "ValueError", "Unsupported language")
                           /\ UNCHANGED <<inference, invoked>>
                      ELSE /\ tasks' = [tasks EXCEPT ![job_id].pc = "transcribing"]
                           /\ inference' = Some(job_id)
                           /\ invoked' = invoked \cup {job_id}
    /\ UNCHANGED <<server, jobs, cancelAt, response>>
    /\ UNCHANGED syncVars
    /\ UNCHANGED otherVars

\* line 302: asr_model.transcribe returns or raises.
\* output: [] | a str | a Hypothesis with text and segments | an object without text
TranscribeOutputs == {"empty", "str", "hyp", "other"}

TranscribeReturn(job_id) ==
    /\ inference = Some(job_id)
    /\ tasks[job_id].pc = "transcribing"
    /\ \/ \E out \in TranscribeOutputs :
            tasks' = [tasks EXCEPT ![job_id].pc = "check3", ![job_id].output = out]
       \/ Raise(job_id, tasks[job_id], "RuntimeError", "transcribe failed")
    /\ inference' = None
    /\ UNCHANGED <<server, asr_models, loads, jobs, files, cancelAt, invoked, response>>
    /\ UNCHANGED syncVars
    /\ UNCHANGED otherVars

\* lines 339-358: the segments of the output, in the canonical shape
Segments(output) ==
    IF output = "hyp" THEN <<[start |-> 0, end |-> 1, text |-> "seg"]>> ELSE <<>>

\* lines 361-368 (the timestamp field is left out)
TranscriptionResponse(task) ==
    [text |-> "text", segments |-> Segments(task.output), filename |-> task.filename,
     model |-> task.model_key, language |-> task.language]

\* lines 313-368: third checkpoint; then the output's shape is read and the
\* result built
Checkpoint3(job_id) ==
    /\ LoopFree
    /\ tasks[job_id].pc = "check3"
    /\ LET task == tasks[job_id] IN
       IF CancelledAfterTranscription(jobs[job_id])
       THEN EndTask(job_id, task)
       ELSE /\ UNCHANGED files
            /\ IF task.output = "empty"
               THEN Raise(job_id, task, "Exception", "Transcription returned empty output")
               ELSE IF task.output = "other"
               THEN Raise(job_id, task, "Exception", "Unexpected output format")
               ELSE tasks' = [tasks EXCEPT ![job_id].pc = "commit",
                                           ![job_id].result = Some(TranscriptionResponse(task))]
    /\ UNCHANGED <<server, asr_models, loads, jobs, inference, cancelAt, invoked, response>>
    /\ UNCHANGED syncVars
    /\ UNCHANGED otherVars

\* lines 371-373
CompletedWithoutResult(job, result) ==
    [job EXCEPT !.status = "completed", !.completed_at = Some(Now(job))]
CompletedJob(job, result) ==
    [job EXCEPT !.status = "completed", !.completed_at = Some(Now(job)),
                !.result = result]

\* lines 370-388, then the finally block
CommitResult(job_id) ==
    /\ LoopFree
    /\ tasks[job_id].pc = "commit"
    /\ jobs' = [jobs EXCEPT ![job_id] = CompletedJob(jobs[job_id], tasks[job_id].result)]
    /\ EndTask(job_id, tasks[job_id])
    /\ UNCHANGED <<server, asr_models, loads, inference, cancelAt, invoked, response>>
    /\ UNCHANGED syncVars
    /\ UNCHANGED otherVars

\* line 391: f"{type(e).__name__}: {str(e)}"
MessageOnly(exc) == <<exc[2]>>
error_msg(exc) == <<exc[1], ": ", exc[2]>>

\* lines 400-402
FailedWithoutError(job, exc) ==
    [job EXCEPT !.status = "failed", !.completed_at = Some(Now(job))]
FailedWithNewCreatedAt(job, exc) ==
    [job EXCEPT !.status = "failed", !.created_at = Now(job),
                !.completed_at = Some(Now(job) + 1),
                !.error = Some(error_msg(exc))]
FailedJob(job, exc) ==
    [job EXCEPT !.status = "failed", !.completed_at = Some(Now(job)),
                !.error = Some(error_msg(exc))]

\* lines 390-402, then the finally block
HandleException(job_id) ==
    /\ LoopFree
    /\ tasks[job_id].pc = "except"
    /\ jobs' = [jobs EXCEPT ![job_id] = FailedJob(jobs[job_id], tasks[job_id].exc[1])]
    /\ EndTask(job_id, tasks[job_id])
    /\ UNCHANGED <<server, asr_models, loads, inference, cancelAt, invoked, response>>
    /\ UNCHANGED syncVars
    /\ UNCHANGED otherVars

\* ---- POST /transcribe (app.py 648-777) -----------------------------------
\* The handler does not wait between its first line and its return
\* (get_or_load_model never suspends): it keeps the loop's thread from the
\* validation to the end of asr_model.transcribe.  The model splits it where
\* the model call is entered, to say that a call is in progress.

\* the handler's locals while asr_model.transcribe runs
SyncLocals(upload, temp_wav, model, language, filename) ==
    [upload |-> upload, temp_wav |-> temp_wav, model_key |-> model,
     language |-> language, filename |-> filename]

\* lines 772-776: the cleanup of the except Exception branch
SyncCleanup(fs, upload, temp_wav) ==
    LET fs1 == cleanup_file(fs, upload) IN
    IF temp_wav # None THEN cleanup_file(fs1, temp_wav[1]) ELSE fs1

\* lines 668-730: validation, upload, conversion, model load, entry of the call
transcribe_audio(model, language, filename) ==
    /\ LoopFree
    /\ LET v == validate_request(model, language, filename) IN
       IF v.code # 200
       THEN /\ response' = Response("transcribe", None, v.code, Some(v.detail))
            /\ UNCHANGED <<asr_models, loads, files, sync_call, sync_count>>
       ELSE /\ Cardinality(DOMAIN jobs) + sync_count < MaxJobs
            /\ sync_count' = sync_count + 1
            /\ \E so \in SaveOutcomes, co \in ConvertOutcomes, lo \in LoadOutcomes :
                 LET upload == SyncUploadPath(sync_count + 1)
                     suffix == SuffixLower(filename)
                     c == convert_to_wav_at(files \cup {upload}, upload,
                                            SyncWavPath(sync_count + 1), suffix, co)
                     temp_wav == IF suffix = ".wav" THEN None ELSE c.path
                     r == get_or_load_model(asr_models, model, lo)
                 IN
                 IF so = "raises"
                 THEN \* 698-700 raise: except Exception, nothing to clean up
                      /\ response' = Response("transcribe", None, 500,
                                              Some("Transcription failed"))
                      /\ UNCHANGED <<asr_models, loads, files, sync_call>>
                 ELSE IF c.path = None
                 THEN \* 706-707: HTTPException, re-raised by 769-770 as it is
                      /\ response' = Response("transcribe", None, 500,
                                              Some("Audio conversion failed"))
                      /\ files' = c.files
                      /\ UNCHANGED <<asr_models, loads, sync_call>>
                 ELSE IF r.raised # None
                 THEN \* 716 raises: except Exception cleans up
                      /\ response' = Response("transcribe", None, 500,
                                              Some("Transcription failed"))
                      /\ files' = SyncCleanup(c.files, upload, temp_wav)
                      /\ asr_models' = r.models
                      /\ loads' = CountLoad(loads, model, r)
                      /\ UNCHANGED sync_call
                 ELSE /\ files' = c.files
                      /\ asr_models' = r.models
                      /\ loads' = CountLoad(loads, model, r)
                      /\ sync_call' = Some(SyncLocals(upload, temp_wav, model,
                                                      v.language, filename))
                      /\ UNCHANGED response
    /\ UNCHANGED <<server, jobs, tasks, inference, cancelAt, invoked, cleanups>>
    /\ UNCHANGED otherVars

\* what line 730 does: one of TranscribeOutputs returned, or an exception
SyncTranscribeOutcomes == TranscribeOutputs \cup {"raises"}

\* lines 730-777: asr_model.transcribe returns or raises; output[0].text is
\* read (it exists only on a Hypothesis); the cleanups are scheduled
transcribe_audio_return ==
    /\ sync_call # None
    /\ LET c == sync_call[1] IN
       \E out \in SyncTranscribeOutcomes :
         IF out = "hyp"
         THEN /\ cleanups' = cleanups \o <<c.upload>> \o c.temp_wav
              /\ response' = Response("transcribe", None, 200,
                     Some([text |-> "text", segments |-> Segments(out),
                           filename |-> c.filename, model |-> c.model_key,
                           language |-> c.language]))
              /\ UNCHANGED files
         ELSE /\ files' = SyncCleanup(files, c.upload, c.temp_wav)
              /\ response' = Response("transcribe", None, 500,
                                      Some("Transcription failed"))
              /\ UNCHANGED cleanups
    /\ sync_call' = None
    /\ UNCHANGED <<server, asr_models, loads, jobs, tasks, inference, cancelAt, invoked,
                   sync_count>>
    /\ UNCHANGED otherVars

\* lines 756-758: a scheduled cleanup_file runs, once the response is sent
run_cleanup ==
    /\ LoopFree
    /\ cleanups # <<>>
    /\ files' = cleanup_file(files, Head(cleanups))
    /\ cleanups' = Tail(cleanups)
    /\ UNCHANGED <<server, asr_models, loads, jobs, tasks, inference, cancelAt, invoked,
                   response, sync_call, sync_count>>
    /\ UNCHANGED otherVars

\* the response of the request just handled goes out to the client
send_response ==
    /\ response # NoResponse
    /\ response' = NoResponse
    /\ UNCHANGED <<server, asr_models, loads, jobs, tasks, files, inference, cancelAt, invoked>>
    /\ UNCHANGED syncVars
    /\ UNCHANGED otherVars

\* ---- the system -----------------------------------------------------------
Next ==
    \/ load_model
    \/ send_response
    \/ health_check
    \/ \E m \in ModelInputs, l \in LanguageInputs, f \in FilenameInputs :
         transcribe_audio_async(m, l, f)
    \/ \E job_id \in JobIds : get_job_status(job_id)
    \/ \E job_id \in JobIds : get_job_result(job_id)
    \/ \E job_id \in JobIds : cancel_job(job_id)
    \/ \E job_id \in DOMAIN tasks : Checkpoint1(job_id)
    \/ \E job_id \in DOMAIN tasks : Checkpoint2(job_id)
    \/ \E job_id \in DOMAIN tasks : TranscribeReturn(job_id)
    \/ \E job_id \in DOMAIN tasks : Checkpoint3(job_id)
    \/ \E job_id \in DOMAIN tasks : CommitResult(job_id)
    \/ \E job_id \in DOMAIN tasks : HandleException(job_id)
    \/ \E m \in ModelInputs, l \in LanguageInputs, f \in FilenameInputs :
         transcribe_audio(m, l, f)
    \/ transcribe_audio_return
    \/ run_cleanup

Spec == Init /\ [][Next]_vars

\* ---- scheduling ------------------------------------------------------------
\* a step of job_id's background task that needs the event loop
TaskStep(job_id) ==
    /\ job_id \in DOMAIN tasks
    /\ \/ Checkpoint1(job_id)
       \/ Checkpoint2(job_id)
       \/ Checkpoint3(job_id)
       \/ CommitResult(job_id)
       \/ HandleException(job_id)

\* a model call in progress returns or raises
ModelCallEnds ==
    \/ \E job_id \in DOMAIN tasks : TranscribeReturn(job_id)
    \/ transcribe_audio_return

\* The loop runs its ready callbacks in the order they became ready: a task
\* that is ready again and again gets its step (strong fairness: requests
\* handled in between make the step disabled for a while); a response is
\* sent; a model call ends.
\* the requests of the runs on which termination is checked: every model
\* key, no language, and a file that needs conversion or is refused
LiveLanguageInputs == {None}
LiveFilenameInputs == {<<"a", ".MP3">>, <<"a", ".txt">>}

LiveNext ==
    \/ load_model
    \/ send_response
    \/ health_check
    \/ \E m \in ModelInputs, l \in LiveLanguageInputs, f \in LiveFilenameInputs :
         transcribe_audio_async(m, l, f)
    \/ \E job_id \in JobIds : get_job_status(job_id)
    \/ \E job_id \in JobIds : get_job_result(job_id)
    \/ \E job_id \in JobIds : cancel_job(job_id)
    \/ \E job_id \in DOMAIN tasks : Checkpoint1(job_id)
    \/ \E job_id \in DOMAIN tasks : Checkpoint2(job_id)
    \/ \E job_id \in DOMAIN tasks : TranscribeReturn(job_id)
    \/ \E job_id \in DOMAIN tasks : Checkpoint3(job_id)
    \/ \E job_id \in DOMAIN tasks : CommitResult(job_id)
    \/ \E job_id \in DOMAIN tasks : HandleException(job_id)
    \/ \E m \in ModelInputs, l \in LiveLanguageInputs, f \in LiveFilenameInputs :
         transcribe_audio(m, l, f)
    \/ transcribe_audio_return
    \/ run_cleanup

FairSpec ==
    /\ Init /\ [][LiveNext]_vars
    /\ \A job_id \in JobIds : SF_vars(TaskStep(job_id))
    /\ WF_vars(send_response)
    /\ WF_vars(ModelCallEnds)

\* the requests of the runs on which the language of a job is followed: every
\* model key; no language, a supported one and an unsupported one; a WAV file
LangLanguageInputs == {None, Some("es"), Some("xx")}
LangFilenameInputs == {<<"a", ".wav">>}

LangNext ==
    \/ load_model
    \/ send_response
    \/ health_check
    \/ \E m \in ModelInputs, l \in LangLanguageInputs, f \in LangFilenameInputs :
         transcribe_audio_async(m, l, f)
    \/ \E job_id \in JobIds : get_job_status(job_id)
    \/ \E job_id \in JobIds : get_job_result(job_id)
    \/ \E job_id \in JobIds : cancel_job(job_id)
    \/ \E job_id \in DOMAIN tasks : Checkpoint1(job_id)
    \/ \E job_id \in DOMAIN tasks : Checkpoint2(job_id)
    \/ \E job_id \in DOMAIN tasks : TranscribeReturn(job_id)
    \/ \E job_id \in DOMAIN tasks : Checkpoint3(job_id)
    \/ \E job_id \in DOMAIN tasks : CommitResult(job_id)
    \/ \E job_id \in DOMAIN tasks : HandleException(job_id)
    \/ \E m \in ModelInputs, l \in LangLanguageInputs, f \in LangFilenameInputs :
         transcribe_audio(m, l, f)
    \/ transcribe_audio_return
    \/ run_cleanup

LangSpec == Init /\ [][LangNext]_vars

\* ---- jobs_lock (app.py 95-97) ----------------------------------------------
\* The job service with every statement of an "async with jobs_lock" block as
\* a step of its own, for one job: what the lock alone guarantees, whatever
\* the interleaving of the coroutines.
appVars == <<server, asr_models, loads, tasks, files, inference, cancelAt,
             invoked, response, sync_call, sync_count, cleanups>>

LockJob == 1
LockFilename == <<"a", ".wav">>
LockResult ==
    Some(TranscriptionResponse(
           [NewTask(LockJob, LockFilename, "parakeet", None) EXCEPT !.output = "hyp"]))
LockError == Some(error_msg(<<"Exception", "Transcription returned empty output">>))

Goto(c, to) == at' = [at EXCEPT ![c] = to]
\* async with jobs_lock: __aenter__ awaits the lock
AcquireWithoutWaiting(c, to) ==
    /\ jobs_lock' = TRUE
    /\ holders' = holders \cup {c}
    /\ Goto(c, to)
Acquire(c, to) ==
    /\ ~jobs_lock
    /\ jobs_lock' = TRUE
    /\ holders' = holders \cup {c}
    /\ Goto(c, to)
\* __aexit__ releases it, on a normal exit, a return or a raise
Release(c, to) ==
    /\ jobs_lock' = FALSE
    /\ holders' = holders \ {c}
    /\ Goto(c, to)
\* a statement inside or outside the block
Step(c, to) == Goto(c, to) /\ UNCHANGED <<jobs_lock, holders>>
Answer(c, code, body) == seen' = [seen EXCEPT ![c] = [code |-> code, body |-> body]]

\* lines 528-537 of transcribe_audio_async
lock_submit ==
    /\ \/ /\ at["submit"] = "536"
          /\ Acquire("submit", "537")
          /\ UNCHANGED jobs
       \/ /\ at["submit"] = "537"
          /\ jobs' = StoreInsert(jobs, LockJob, NewJobInfo(LockJob, LockFilename))
          /\ Step("submit", "538")
       \/ /\ at["submit"] = "538"
          /\ Release("submit", "done")
          /\ UNCHANGED jobs
    /\ UNCHANGED <<seen, appVars, voiceVars, proxyVars>>

\* the lock sections of process_transcription_job (253-260, 273-279, 314-320,
\* 370-373, 399-402) and the model call between them (302)
lock_task ==
    /\ LET pc == at["task"]
           cancelled == jobs[LockJob].status = "cancelled"
       IN
       \/ /\ pc = "start" /\ at["submit"] = "done"
          /\ Acquire("task", "254") /\ UNCHANGED jobs
       \/ /\ pc = "254"
          /\ Step("task", IF cancelled THEN "return" ELSE "260") /\ UNCHANGED jobs
       \/ /\ pc = "260"
          /\ jobs' = [jobs EXCEPT ![LockJob].status = "processing"]
          /\ Step("task", "261")
       \/ /\ pc = "261" /\ Release("task", "273") /\ UNCHANGED jobs
       \/ /\ pc = "273" /\ Acquire("task", "274") /\ UNCHANGED jobs
       \/ /\ pc = "274"
          /\ Step("task", IF cancelled THEN "return" ELSE "280") /\ UNCHANGED jobs
       \/ /\ pc = "280" /\ Release("task", "302") /\ UNCHANGED jobs
       \/ /\ pc = "302"
          /\ \E to \in {"314", "399"} : Step("task", to)
          /\ UNCHANGED jobs
       \/ /\ pc = "314" /\ Acquire("task", "315") /\ UNCHANGED jobs
       \/ /\ pc = "315"
          /\ Step("task", IF cancelled THEN "return" ELSE "321") /\ UNCHANGED jobs
       \/ /\ pc = "321" /\ Release("task", "370") /\ UNCHANGED jobs
       \/ /\ pc = "370" /\ Acquire("task", "371") /\ UNCHANGED jobs
       \/ /\ pc = "371"
          /\ jobs' = [jobs EXCEPT ![LockJob].status = "completed"]
          /\ Step("task", "372")
       \/ /\ pc = "372"
          /\ jobs' = [jobs EXCEPT ![LockJob].completed_at = Some(Now(jobs[LockJob]))]
          /\ Step("task", "373")
       \/ /\ pc = "373"
          /\ jobs' = [jobs EXCEPT ![LockJob].result = LockResult]
          /\ Step("task", "return")
       \/ /\ pc = "399" /\ Acquire("task", "400") /\ UNCHANGED jobs
       \/ /\ pc = "400"
          /\ jobs' = [jobs EXCEPT ![LockJob].status = "failed"]
          /\ Step("task", "401")
       \/ /\ pc = "401"
          /\ jobs' = [jobs EXCEPT ![LockJob].completed_at = Some(Now(jobs[LockJob]))]
          /\ Step("task", "402")
       \/ /\ pc = "402"
          /\ jobs' = [jobs EXCEPT ![LockJob].error = LockError]
          /\ Step("task", "return")
       \/ /\ pc = "return" /\ Release("task", "done") /\ UNCHANGED jobs
    /\ UNCHANGED <<seen, appVars, voiceVars, proxyVars>>

\* the fields model_copy copies (JobInfo, 109-117), in order
CopiedFields == <<"status", "completed_at", "error", "result">>
CopyLine(i) == <<"578.status", "578.completed_at", "578.error", "578.result">>[i]

\* get_job_status (573-578)
lock_status ==
    /\ LET pc == at["status"] IN
       \/ /\ pc = "573" /\ Acquire("status", "574") /\ UNCHANGED seen
       \/ /\ pc = "574"
          /\ IF LockJob \notin DOMAIN jobs
             THEN Answer("status", 404, Some("Job not found")) /\ Step("status", "exit")
             ELSE /\ Answer("status", 200, Some(NewJobInfo(LockJob, LockFilename)))
                  /\ Step("status", CopyLine(1))
       \/ \E i \in DOMAIN CopiedFields :
            /\ pc = CopyLine(i)
            /\ Answer("status", 200,
                      Some([seen["status"].body[1] EXCEPT
                              ![CopiedFields[i]] = jobs[LockJob][CopiedFields[i]]]))
            /\ Step("status", IF i = Len(CopiedFields) THEN "exit" ELSE CopyLine(i + 1))
       \/ /\ pc = "exit" /\ Release("status", "573") /\ UNCHANGED seen
    /\ UNCHANGED <<jobs, appVars, voiceVars, proxyVars>>

\* get_job_result (592-610)
lock_result ==
    /\ LET pc == at["result"] IN
       \/ /\ pc = "592" /\ Acquire("result", "593") /\ UNCHANGED seen
       \/ /\ pc = "593"
          /\ IF LockJob \notin DOMAIN jobs
             THEN Answer("result", 404, Some("Job not found")) /\ Step("result", "exit")
             ELSE Step("result", "598") /\ UNCHANGED seen
       \/ /\ pc = "598"
          /\ LET job == jobs[LockJob] IN
             IF job.status \in {"pending", "processing"}
             THEN Answer("result", 400, Some("Job not yet completed"))
                  /\ Step("result", "exit")
             ELSE IF job.status = "failed"
             THEN Answer("result", 500, job.error) /\ Step("result", "exit")
             ELSE IF job.status = "cancelled"
             THEN Answer("result", 400, Some("Job was cancelled"))
                  /\ Step("result", "exit")
             ELSE Step("result", "607") /\ UNCHANGED seen
       \/ /\ pc = "607"
          /\ LET job == jobs[LockJob] IN
             IF job.result = None
             THEN Answer("result", 500, Some("Job completed but result not available"))
             ELSE Answer("result", 200, job.result)
          /\ Step("result", "exit")
       \/ /\ pc = "exit" /\ Release("result", "592") /\ UNCHANGED seen
    /\ UNCHANGED <<jobs, appVars, voiceVars, proxyVars>>

\* cancel_job (627-645)
lock_cancel ==
    /\ LET pc == at["cancel"] IN
       \/ /\ pc = "627" /\ Acquire("cancel", "628") /\ UNCHANGED <<jobs, seen>>
       \/ /\ pc = "628"
          /\ IF LockJob \notin DOMAIN jobs
             THEN Answer("cancel", 404, Some("Job not found")) /\ Step("cancel", "exit")
             ELSE Step("cancel", "633") /\ UNCHANGED seen
          /\ UNCHANGED jobs
       \/ /\ pc = "633"
          /\ IF jobs[LockJob].status \in {"completed", "failed", "cancelled"}
             THEN Answer("cancel", 400, Some("Cannot cancel job"))
                  /\ Step("cancel", "exit")
             ELSE Step("cancel", "640") /\ UNCHANGED seen
          /\ UNCHANGED jobs
       \/ /\ pc = "640"
          /\ jobs' = [jobs EXCEPT ![LockJob].status = "cancelled"]
          /\ Step("cancel", "641") /\ UNCHANGED seen
       \/ /\ pc = "641"
          /\ jobs' = [jobs EXCEPT ![LockJob].completed_at = Some(Now(jobs[LockJob]))]
          /\ Answer("cancel", 200, Some("cancellation requested"))
          /\ Step("cancel", "exit")
       \/ /\ pc = "exit" /\ Release("cancel", "627") /\ UNCHANGED <<jobs, seen>>
    /\ UNCHANGED <<appVars, voiceVars, proxyVars>>

LockNext ==
    \/ lock_submit
    \/ lock_task
    \/ lock_status
    \/ lock_result
    \/ lock_cancel

LockSpec == Init /\ [][LockNext]_vars

\* ---- scenario5/app.py: the /ws/voice handler (296-433) ---------------------
\* what the client sends, as ws.receive() returns it
VoiceMessages ==
    {"config_on", "config_off", "clear_history", "bad_json", "no_bytes",
     "audio", "bad_audio", "disconnect"}
\* what get_asr_model() and model.transcribe do for an audio message (356-358):
\* a hypothesis with text, one with blank text, an empty list (hypotheses[0]
\* raises), or an exception before hypotheses is assigned
AsrOutcomes == {"text", "blank", "empty_list", "raises"}
LlmOutcomes == {"ok", "raises"}
TtsOutcomes == {"ok", "raises"}
\* how the handler can end: the except clause of line 432 caught the
\* exception, or the exception left voice_ws
HandlerEnds == {"closed", "crashed"}

VoiceLog(line) == voice_log' = Append(voice_log, line)
VoiceSend(type, text) == voice_sent' = Append(voice_sent, [type |-> type, text |-> text])

\* lines 305-374: a message is received; a text frame is handled; an audio
\* frame is decoded, transcribed and its transcript sent
voice_receive(msg) ==
    /\ voice_pc = "receive"
    /\ CASE msg = "config_on" ->
              /\ smart_mode' = TRUE
              /\ voice_log' = <<"Smart Mode enabled">>
              /\ UNCHANGED <<voice_pc, chat_history, hypotheses, transcript, turn>>
         [] msg = "config_off" ->
              /\ smart_mode' = FALSE
              /\ voice_log' = <<"Smart Mode disabled">>
              /\ UNCHANGED <<voice_pc, chat_history, hypotheses, transcript, turn>>
         [] msg = "clear_history" ->
              /\ chat_history' = <<>>
              /\ voice_log' = <<"Chat history cleared">>
              /\ UNCHANGED <<voice_pc, smart_mode, hypotheses, transcript, turn>>
         [] msg \in {"bad_json", "no_bytes"} ->
              /\ voice_log' = <<>>
              /\ UNCHANGED <<voice_pc, smart_mode, chat_history, hypotheses,
                             transcript, turn>>
         [] msg = "disconnect" ->
              \* no text, no bytes: continue; the next receive() raises RuntimeError
              /\ voice_pc' = "closed"
              /\ voice_log' = <<"WebSocket client disconnected">>
              /\ UNCHANGED <<smart_mode, chat_history, hypotheses, transcript, turn>>
         [] msg = "bad_audio" ->
              \* sf.read (335) is outside the try of 354: its error leaves the loop
              /\ \E end \in HandlerEnds : voice_pc' = end
              /\ voice_log' = <<"Received audio">>
              /\ UNCHANGED <<smart_mode, chat_history, hypotheses, transcript, turn>>
         [] msg = "audio" ->
              /\ turn < MaxTurns
              /\ \E asr \in AsrOutcomes :
                   LET bound == CASE asr \in {"text", "blank"} -> Some("hypothesis")
                                  [] asr = "empty_list" -> Some("empty")
                                  [] asr = "raises" -> hypotheses
                       text == IF asr = "text" THEN "text" ELSE ""
                       error == IF asr \in {"empty_list", "raises"}
                                THEN <<"ASR error">> ELSE <<>>
                   IN
                   /\ hypotheses' = bound
                   /\ transcript' = text
                   /\ IF bound = None
                      THEN \* 367 reads hypotheses: UnboundLocalError
                           /\ voice_pc' = "crashed"
                           /\ voice_log' = <<"Received audio">> \o error
                      ELSE /\ voice_pc' = "llm"
                           /\ voice_log' = <<"Received audio">> \o error \o <<"Transcript">>
              /\ UNCHANGED <<smart_mode, chat_history, turn>>
    /\ voice_sent' = IF msg = "audio" /\ voice_pc' = "llm"
                     THEN <<[type |-> "transcript", text |-> transcript']>>
                     ELSE <<>>
    /\ UNCHANGED response_text
    /\ UNCHANGED <<appVars, jobs, lockVars, proxyVars>>

\* lines 388-391: the turn is appended and the history cut to its last entries
KeepEverything(history, user, assistant) ==
    history \o <<user, assistant>>
UpdateHistory(history, user, assistant) ==
    LET h == history \o <<user, assistant>> IN
    IF Len(h) > HistoryLimit
    THEN SubSeq(h, Len(h) - HistoryLimit + 1, Len(h))
    ELSE h

\* lines 377-400: the reply is generated in Smart Mode, else the transcript
\* is echoed
voice_llm ==
    /\ voice_pc = "llm"
    /\ voice_pc' = "tts"
    /\ IF smart_mode /\ transcript # ""
       THEN \E llm \in LlmOutcomes :
              IF llm = "ok"
              THEN /\ turn' = turn + 1
                   /\ chat_history' =
                        UpdateHistory(chat_history,
                                      [role |-> "user", content |-> turn + 1],
                                      [role |-> "assistant", content |-> turn + 1])
                   /\ response_text' = "reply"
                   /\ voice_log' = voice_log \o <<"Running LLM inference", "LLM response">>
                   /\ VoiceSend("thinking", "")
              ELSE /\ response_text' = transcript
                   /\ voice_log' = voice_log \o <<"Running LLM inference", "LLM error">>
                   /\ VoiceSend("thinking", "")
                   /\ UNCHANGED <<chat_history, turn>>
       ELSE /\ response_text' = transcript
            /\ UNCHANGED <<chat_history, turn, voice_log, voice_sent>>
    /\ UNCHANGED <<smart_mode, hypotheses, transcript>>
    /\ UNCHANGED <<appVars, jobs, lockVars, proxyVars>>

\* lines 403-430: the reply is synthesised and the response sent
voice_tts ==
    /\ voice_pc = "tts"
    /\ IF response_text # ""
       THEN \E tts \in TtsOutcomes :
              IF tts = "ok"
              THEN /\ voice_pc' = "receive"
                   /\ VoiceSend("response", response_text)
                   /\ voice_log' = voice_log \o <<"TTS audio generated", "Response sent">>
              ELSE /\ \E end \in HandlerEnds : voice_pc' = end
                   /\ VoiceLog("Running TTS inference")
                   /\ UNCHANGED voice_sent
       ELSE /\ voice_pc' = "receive"
            /\ VoiceSend("response", response_text)
            /\ voice_log' = voice_log \o <<"Empty response", "Response sent">>
    /\ UNCHANGED <<smart_mode, chat_history, hypotheses, transcript, response_text, turn>>
    /\ UNCHANGED <<appVars, jobs, lockVars, proxyVars>>

VoiceNext ==
    \/ \E msg \in VoiceMessages : voice_receive(msg)
    \/ voice_llm
    \/ voice_tts

VoiceSpec == Init /\ [][VoiceNext]_vars

\* ---- scenario6/app.py: the /proxy/moshi handler (286-363) ------------------
nonProxyVars == <<appVars, jobs, lockVars, voiceVars>>

\* what ws_client.receive() under wait_for gives (321-329)
ClientReceives == {"bytes", "other", "disconnect", "timeout", "raises"}
\* what the iteration over ws_backend gives (336-347)
BackendReceives == {"BINARY", "TEXT", "ERROR", "closed"}
ConnectOutcomes == {"ok", "raises"}

\* lines 291-315: the client is accepted and the backend connection opened;
\* gather starts the two directions
proxy_connect ==
    /\ proxy_pc = "connect"
    /\ \E o \in ConnectOutcomes :
         IF o = "ok" /\ backend_peer = "up"
         THEN /\ proxy_pc' = "gather"
              /\ ws_backend' = "open"
              /\ c2b' = "receive"
              /\ b2c' = "next"
         ELSE /\ proxy_pc' = "finally"
              /\ UNCHANGED <<ws_backend, c2b, b2c>>
    /\ ws_client' = "open"
    /\ UNCHANGED <<stop_event, backend_peer, client_peer, frames_up, frames_down>>
    /\ UNCHANGED nonProxyVars

\* line 319: while not stop_event.is_set()
NextIterationIgnoringStop(stop) == "receive"
NextIteration(stop) == IF stop THEN "close" ELSE "receive"

\* lines 321-331: the wait for the client's next message ends; a break or a
\* set stop_event leads into the finally block, up to its await
client_to_backend_received ==
    /\ c2b = "receive"
    /\ \E r \in ClientReceives :
         CASE r = "bytes" ->
                /\ client_peer = "up" /\ frames_up < MaxFrames
                /\ c2b' = "send"
                /\ UNCHANGED stop_event
           [] r \in {"other", "timeout"} ->
                /\ r = "other" => client_peer = "up"
                /\ c2b' = NextIteration(stop_event)
                /\ UNCHANGED stop_event
           [] r \in {"disconnect", "raises"} ->
                /\ client_peer = "gone"
                /\ c2b' = "close"
                /\ stop_event' = TRUE
    /\ UNCHANGED <<proxy_pc, b2c, ws_backend, ws_client, backend_peer, client_peer,
                   frames_up, frames_down>>
    /\ UNCHANGED nonProxyVars

\* line 325: ws_backend.send_bytes returns or raises
client_to_backend_sent ==
    /\ c2b = "send"
    /\ IF ws_backend = "open" /\ backend_peer = "up"
       THEN /\ frames_up' = frames_up + 1
            /\ c2b' = NextIteration(stop_event)
            /\ UNCHANGED stop_event
       ELSE /\ c2b' = "close"
            /\ stop_event' = TRUE
            /\ UNCHANGED frames_up
    /\ UNCHANGED <<proxy_pc, b2c, ws_backend, ws_client, backend_peer, client_peer,
                   frames_down>>
    /\ UNCHANGED nonProxyVars

\* line 332: await ws_backend.close()
client_to_backend_close ==
    /\ c2b = "close"
    /\ ws_backend' = "closed"
    /\ c2b' = "done"
    /\ UNCHANGED <<proxy_pc, stop_event, b2c, ws_client, backend_peer, client_peer,
                   frames_up, frames_down>>
    /\ UNCHANGED nonProxyVars

\* lines 336-349: the iteration gives a message or ends
backend_to_client_next ==
    /\ b2c = "next"
    /\ \E r \in BackendReceives :
         /\ IF r = "closed"
            THEN ws_backend = "closed" \/ backend_peer = "gone"
            ELSE ws_backend = "open" /\ backend_peer = "up"
         /\ r = "BINARY" => frames_down < MaxFrames
         /\ IF r = "BINARY" /\ ~stop_event
            THEN b2c' = "send" /\ UNCHANGED stop_event
            ELSE IF r = "TEXT" /\ ~stop_event
            THEN UNCHANGED <<b2c, stop_event>>
            ELSE b2c' = "done" /\ stop_event' = TRUE
    /\ UNCHANGED <<proxy_pc, c2b, ws_backend, ws_client, backend_peer, client_peer,
                   frames_up, frames_down>>
    /\ UNCHANGED nonProxyVars

\* line 340: ws_client.send_bytes returns or raises
backend_to_client_sent ==
    /\ b2c = "send"
    /\ IF client_peer = "up"
       THEN /\ frames_down' = frames_down + 1
            /\ b2c' = "next"
            /\ UNCHANGED stop_event
       ELSE /\ b2c' = "done"
            /\ stop_event' = TRUE
            /\ UNCHANGED frames_down
    /\ UNCHANGED <<proxy_pc, c2b, ws_backend, ws_client, backend_peer, client_peer,
                   frames_up>>
    /\ UNCHANGED nonProxyVars

\* lines 351-355: gather returns when both directions have ended; the two
\* async with blocks are left
proxy_gathered ==
    /\ proxy_pc = "gather"
    /\ c2b = "done" /\ b2c = "done"
    /\ proxy_pc' = "finally"
    /\ ws_backend' = "closed"
    /\ UNCHANGED <<stop_event, c2b, b2c, ws_client, backend_peer, client_peer,
                   frames_up, frames_down>>
    /\ UNCHANGED nonProxyVars

\* lines 358-363: ws_client.close(), whatever it raises
proxy_finally ==
    /\ proxy_pc = "finally"
    /\ ws_client' = "closed"
    /\ proxy_pc' = "done"
    /\ UNCHANGED <<stop_event, c2b, b2c, ws_backend, backend_peer, client_peer,
                   frames_up, frames_down>>
    /\ UNCHANGED nonProxyVars

\* the browser goes away; the Moshi backend closes the connection or dies
client_leaves ==
    /\ client_peer = "up"
    /\ client_peer' = "gone"
    /\ UNCHANGED <<proxy_pc, stop_event, c2b, b2c, ws_backend, ws_client,
                   backend_peer, frames_up, frames_down>>
    /\ UNCHANGED nonProxyVars
backend_leaves ==
    /\ backend_peer = "up"
    /\ backend_peer' = "gone"
    /\ UNCHANGED <<proxy_pc, stop_event, c2b, b2c, ws_backend, ws_client,
                   client_peer, frames_up, frames_down>>
    /\ UNCHANGED nonProxyVars

client_to_backend ==
    \/ client_to_backend_received
    \/ client_to_backend_sent
    \/ client_to_backend_close
backend_to_client ==
    \/ backend_to_client_next
    \/ backend_to_client_sent
ws_moshi_proxy ==
    \/ proxy_connect
    \/ proxy_gathered
    \/ proxy_finally

ProxyNext ==
    \/ ws_moshi_proxy
    \/ client_to_backend
    \/ backend_to_client
    \/ client_leaves
    \/ backend_leaves

\* Each await of the handler ends: the wait for the client is cut by its 60 s
\* timeout, a send or close on a connection returns or raises, and the loop
\* runs the coroutine that is ready.
ProxySpec ==
    /\ Init /\ [][ProxyNext]_vars
    /\ WF_vars(ws_moshi_proxy)
    /\ WF_vars(client_to_backend)
    /\ WF_vars(backend_to_client)

\* ---- properties ------------------------------------------------------------
\* the terminal states of a job
Terminal == {"completed", "failed", "cancelled"}

\* a step that answers a cancel request for job j
CancelAnswered(j) ==
    response = NoResponse /\ response'.op = "cancel" /\ response'.job_id = Some(j)

\* a step that answers a result request for job j
ResultAnswered(j) ==
    response = NoResponse /\ response'.op = "result" /\ response'.job_id = Some(j)

C2_TerminalHasExactlyOneOfErrorResult ==
    \A j \in DOMAIN jobs :
      jobs[j].status \in Terminal =>
        ((jobs[j].error # None) # (jobs[j].result # None))

\* C2, amended: every completed or failed job has exactly one of error and
\* result non-null; a cancelled job has both null.
C2_FinishedHasExactlyOneCancelledHasNone ==
    \A j \in DOMAIN jobs :
      /\ jobs[j].status \in {"completed", "failed"} =>
           ((jobs[j].error # None) # (jobs[j].result # None))
      /\ jobs[j].status = "cancelled" =>
           (jobs[j].error = None /\ jobs[j].result = None)

C2_Witness ==
    \E j, k \in DOMAIN jobs :
      /\ jobs[j].status = "failed" /\ tasks[j].pc = "done"
      /\ jobs[k].status = "cancelled" /\ tasks[k].pc = "done"

C4_CancelBeforeModelMeansNoInvocation ==
    \A j \in DOMAIN jobs :
      cancelAt[j] \in {"check1", "check2"} => j \notin invoked

C4_Witness ==
    /\ \E j \in DOMAIN jobs : cancelAt[j] = "check1" /\ tasks[j].pc = "done"
    /\ \E j \in DOMAIN jobs : cancelAt[j] = "check2" /\ tasks[j].pc = "done"

\* C5: when a job's background task has ended, neither the uploaded temp file
\* nor a converted temp WAV made for the job exists.
C5_NoTempFileAfterTaskEnd ==
    \A j \in DOMAIN tasks :
      tasks[j].pc = "done" => (UploadPath(j) \notin files /\ WavPath(j) \notin files)

\* C6: a cancel request for a job already completed, failed or cancelled is
\* answered 400 and leaves the job store as it was.
C6_CancelOfTerminalJobIsRejected ==
    [][\A j \in DOMAIN jobs :
         (jobs[j].status \in Terminal /\ CancelAnswered(j)) =>
           (response'.code = 400 /\ jobs' = jobs)]_vars

C6_Witness ==
    \E j \in DOMAIN jobs :
      /\ response.op = "cancel" /\ response.job_id = Some(j) /\ response.code = 400
      /\ jobs[j].status = "completed"
      /\ jobs[j].result # None

\* C7: a cancel request for a pending or processing job sets, in one step,
\* status to cancelled and completed_at to the current time, answers with
\* status cancelled, and changes nothing else: no other field, no other job,
\* no task's progress, no file, no model.
C7_CancelOfLiveJobOnlySetsStatusAndTime ==
    [][\A j \in DOMAIN jobs :
         (jobs[j].status \in {"pending", "processing"} /\ CancelAnswered(j)) =>
           /\ jobs' = [jobs EXCEPT ![j].status = "cancelled",
                                   ![j].completed_at = Some(Now(jobs[j]))]
           /\ response'.code = 200
           /\ response'.body = Some("cancelled")
           /\ UNCHANGED <<server, asr_models, tasks, files, inference, invoked>>]_vars

C7_Witness ==
    \E j, k \in DOMAIN jobs :
      /\ j # k
      /\ response.op = "cancel" /\ response.job_id = Some(j) /\ response.code = 200
      /\ cancelAt[j] = "check2"
      /\ jobs[k].status = "processing"

\* C8: the result endpoint answers 404 for an unknown job id, 400 while the
\* job is pending or processing, 500 with the recorded error when it is
\* failed, 400 when it is cancelled, and the stored result only when it is
\* completed; it never changes the job store.
C8_ResultEndpointAnswers ==
    [][\A j \in JobIds :
         ResultAnswered(j) =>
           /\ jobs' = jobs
           /\ j \notin DOMAIN jobs => response'.code = 404
           /\ j \in DOMAIN jobs =>
                /\ jobs[j].status \in {"pending", "processing"} => response'.code = 400
                /\ jobs[j].status = "failed" =>
                     (response'.code = 500 /\ response'.body = jobs[j].error)
                /\ jobs[j].status = "cancelled" => response'.code = 400
                /\ jobs[j].status = "completed" =>
                     (response'.code = 200 /\ response'.body = jobs[j].result)
                /\ response'.code = 200 => jobs[j].status = "completed"]_vars

C8_Witness ==
    \E j \in DOMAIN jobs :
      /\ response.op = "result" /\ response.job_id = Some(j) /\ response.code = 200
      /\ jobs[j].status = "completed"
      /\ response.body = jobs[j].result

\* C9: an exception raised by audio conversion, model loading, the model call
\* or the handling of the output's shape stays inside the background task: the
\* task's next step records status failed, completed_at and the error made of
\* the exception's type name and message, and ends the task; the job then
\* stays failed.
C9_ExceptionEndsJobFailed ==
    [][\A j \in DOMAIN tasks :
         /\ (tasks[j].pc = "except" /\ tasks'[j] # tasks[j]) =>
              /\ tasks'[j].pc = "done"
              /\ jobs'[j].status = "failed"
              /\ jobs'[j].completed_at # None
              /\ jobs'[j].error =
                   Some(<<tasks[j].exc[1][1], ": ", tasks[j].exc[1][2]>>)
         /\ (tasks[j].pc = "done" /\ jobs[j].status = "failed") =>
              jobs'[j] = jobs[j]]_vars

C9_Witness ==
    \E j \in DOMAIN jobs :
      /\ tasks[j].pc = "done"
      /\ jobs[j].status = "failed"
      /\ jobs[j].error = Some(<<"RuntimeError", ": ", "transcribe failed">>)

\* C10: a job whose status is completed, failed or cancelled never has status
\* pending or processing again, and a step sets processing only from pending,
\* as the task's first step.
C10_NoReturnToPendingOrProcessing ==
    [][\A j \in DOMAIN jobs :
         /\ jobs[j].status \in Terminal => jobs'[j].status \in Terminal
         /\ jobs'[j].status = "pending" => jobs[j].status = "pending"
         /\ (jobs'[j].status = "processing" /\ jobs[j].status # "processing") =>
              /\ jobs[j].status = "pending"
              /\ tasks[j].pc = "check1"
              /\ tasks'[j].pc # "check1"]_vars

C10_Witness ==
    \E j \in DOMAIN jobs :
      /\ cancelAt[j] = "check1"
      /\ tasks[j].pc = "done"
      /\ jobs[j].status = "cancelled"
      /\ j \notin invoked

\* C11: for every job, error is non-null exactly when status is failed and
\* result is non-null exactly when status is completed; the result endpoint
\* answers 500 only for a failed job, with its error (never "Job completed but
\* result not available").
C11_ErrorIffFailedResultIffCompleted ==
    /\ \A j \in DOMAIN jobs :
         /\ (jobs[j].error # None) <=> (jobs[j].status = "failed")
         /\ (jobs[j].result # None) <=> (jobs[j].status = "completed")
    /\ \A j \in DOMAIN jobs :
         (response.op = "result" /\ response.job_id = Some(j) /\ response.code = 500) =>
           (jobs[j].status = "failed" /\ response.body = jobs[j].error)

C11_Witness ==
    \E j, k \in DOMAIN jobs :
      /\ jobs[j].status = "completed" /\ jobs[j].result # None
      /\ jobs[k].status = "failed" /\ jobs[k].error # None
      /\ response.op = "result" /\ response.job_id = Some(j) /\ response.code = 200

\* C12: for every job, completed_at is null exactly when status is pending or
\* processing, and the step that moves a job to completed, failed or
\* cancelled is the step that sets completed_at.
C12_CompletedAtIffTerminal ==
    [][\A j \in DOMAIN jobs :
         /\ (jobs[j].completed_at = None) <=> (jobs[j].status \in {"pending", "processing"})
         /\ (jobs'[j].completed_at = None) <=> (jobs'[j].status \in {"pending", "processing"})
         /\ (jobs[j].status \notin Terminal /\ jobs'[j].status \in Terminal) =>
              (jobs[j].completed_at = None /\ jobs'[j].completed_at # None)]_vars

C12_Witness ==
    \E j, k \in DOMAIN jobs :
      /\ jobs[j].status = "cancelled" /\ jobs[j].completed_at # None
      /\ jobs[k].status = "completed" /\ jobs[k].completed_at # None
      /\ tasks[j].pc = "done" /\ tasks[k].pc = "done"

\* a step that answers a submission
SubmitAnswered == response = NoResponse /\ response'.op = "submit"

\* the rules of submission validation, read off a request
UnknownModel(r) == r.model \notin SUPPORTED_MODELS
BadLanguage(r) ==
    r.model = "canary" /\ r.language # None /\ r.language[1] \notin SUPPORTED_LANGUAGES
BadExtension(r) == SuffixLower(r.filename) \notin AUDIO_EXTENSIONS

\* C13: a submission with an unknown model, an unsupported language for the
\* multilingual model or an unsupported file extension is answered 400 in the
\* step that handles it, and creates nothing: no job record, no temp file, no
\* background task.
C13_RejectedSubmissionCreatesNothing ==
    [][(SubmitAnswered /\ (\/ UnknownModel(response'.request)
                           \/ BadLanguage(response'.request)
                           \/ BadExtension(response'.request))) =>
         (response'.code = 400 /\ UNCHANGED <<jobs, tasks, files>>)]_vars

C13_Witness ==
    /\ response.op = "submit" /\ response.code = 400
    /\ BadExtension(response.request)
    /\ ~UnknownModel(response.request) /\ ~BadLanguage(response.request)
    /\ DOMAIN jobs # {} /\ files # {}

\* C14: a successful submission inserts exactly one new record, pending with
\* null completed_at, error and result, schedules exactly one background task
\* for that job id, and answers with that job_id and status pending in the
\* same step, without a model call; the task has not taken a step while the
\* answer is on its way.
C14_SubmissionInsertsOnePendingJob ==
    [][/\ (response.op = "submit" /\ response.code = 200) =>
            (/\ tasks[response.job_id[1]].pc = "check1"
             /\ jobs[response.job_id[1]].status = "pending")
       /\ (SubmitAnswered /\ response'.code = 200) =>
         \E j \in JobIds :
           /\ response'.job_id = Some(j) /\ response'.body = Some("pending")
           /\ j \notin DOMAIN jobs
           /\ DOMAIN jobs' = DOMAIN jobs \cup {j}
           /\ \A k \in DOMAIN jobs : jobs'[k] = jobs[k]
           /\ jobs'[j].job_id = j /\ jobs'[j].status = "pending"
           /\ jobs'[j].filename = response'.request.filename
           /\ jobs'[j].completed_at = None /\ jobs'[j].error = None
           /\ jobs'[j].result = None
           /\ DOMAIN tasks' = DOMAIN tasks \cup {j}
           /\ \A k \in DOMAIN tasks : tasks'[k] = tasks[k]
           /\ tasks'[j].pc = "check1"
           /\ UNCHANGED <<inference, invoked>>]_vars

C14_Witness ==
    \E j, k \in DOMAIN jobs :
      /\ response.op = "submit" /\ response.code = 200 /\ response.job_id = Some(j)
      /\ jobs[j].status = "pending" /\ tasks[j].pc = "check1"
      /\ jobs[k].status = "processing"

C19_ValidationOrder ==
    [][SubmitAnswered =>
         LET r == response'.request IN
           /\ UnknownModel(r) =>
                (response'.code = 400 /\ response'.body = Some("Unsupported model"))
           /\ (~UnknownModel(r) /\ BadLanguage(r)) =>
                (response'.code = 400 /\ response'.body = Some("Unsupported language"))
           /\ (~UnknownModel(r) /\ ~BadLanguage(r) /\ BadExtension(r)) =>
                (response'.code = 400 /\ response'.body = Some("Unsupported file format"))
           /\ (~UnknownModel(r) /\ ~BadLanguage(r) /\ ~BadExtension(r)) =>
                response'.code # 400
           /\ (response'.code = 200 /\ r.model = "canary" /\ r.language = None) =>
                tasks'[response'.job_id[1]].language = Some("en")]_vars

C19_Witness ==
    /\ response.op = "submit" /\ response.code = 400
    /\ response.body = Some("Unsupported language")
    /\ BadLanguage(response.request) /\ BadExtension(response.request)

\* a step that answers a status request for job j
StatusAnswered(j) ==
    response = NoResponse /\ response'.op = "status" /\ response'.job_id = Some(j)

\* C20: the status endpoint never changes the job store; for a known job it
\* answers with a snapshot equal to the stored record, so that two calls with
\* no change to the job in between answer the same; for an unknown job id it
\* answers 404.
C20_StatusIsReadOnlySnapshot ==
    [][\A j \in JobIds :
         StatusAnswered(j) =>
           /\ UNCHANGED <<jobs, tasks, files, cancelAt>>
           /\ j \notin DOMAIN jobs => response'.code = 404
           /\ j \in DOMAIN jobs =>
                (response'.code = 200 /\ response'.body = Some(jobs[j]))]_vars

C20_Witness ==
    \E j \in DOMAIN jobs :
      /\ response.op = "status" /\ response.job_id = Some(j) /\ response.code = 200
      /\ response.body = Some(jobs[j])
      /\ jobs[j].status = "completed"

\* C17: while a model call is in progress (a job's or the /transcribe
\* handler's), a status request and a cancel request can be handled.
C17_RequestsServedDuringInference ==
    (inference # None \/ sync_call # None) =>
      /\ ENABLED (\E j \in JobIds : get_job_status(j))
      /\ ENABLED (\E j \in JobIds : cancel_job(j))

\* the transcribe calls in progress on the model loaded for model key m
JobCallsInProgress(m) ==
    {j \in DOMAIN tasks : tasks[j].pc = "transcribing" /\ tasks[j].model_key = m}
SyncCallsInProgress(m) ==
    IF sync_call # None /\ sync_call[1].model_key = m THEN 1 ELSE 0

\* C18: at no time are two transcribe calls in progress on the same loaded
\* model, counting the background jobs' calls and the /transcribe handler's.
C18_OneTranscribeCallPerModel ==
    \A m \in SUPPORTED_MODELS :
      Cardinality(JobCallsInProgress(m)) + SyncCallsInProgress(m) <= 1

C18_Witness ==
    \E j \in DOMAIN tasks :
      /\ sync_call # None
      /\ tasks[j].pc = "check2"
      /\ tasks[j].model_key = sync_call[1].model_key

\* C16: when conversion and model calls end and the background task is
\* scheduled fairly, every accepted job reaches completed, failed or
\* cancelled and its background task ends.
C16_EveryJobTerminates ==
    \A j \in JobIds :
      (j \in DOMAIN jobs) ~>
        (j \in DOMAIN jobs /\ jobs[j].status \in Terminal /\ tasks[j].pc = "done")

C16_Witness ==
    \E j, k \in DOMAIN jobs :
      /\ j # k
      /\ jobs[j].status = "completed" /\ tasks[j].pc = "done"
      /\ jobs[k].status = "failed" /\ tasks[k].pc = "done"

\* C21: whenever the server handles requests the default model is loaded, so
\* GET /health answers 200 with status "healthy" and model_loaded true; a
\* startup whose load fails leaves the server not serving: no request is
\* handled and nothing is created.
C21_ServingImpliesDefaultModelLoaded ==
    /\ server = "serving" => asr_models["parakeet"]
    /\ response.op = "health" =>
         /\ response.code = 200
         /\ response.body[1].status = "healthy"
         /\ response.body[1].model_loaded
    /\ server # "serving" =>
         /\ ~asr_models["parakeet"]
         /\ response = NoResponse /\ jobs = <<>> /\ sync_count = 0
         /\ ~ENABLED health_check

C21_Witness ==
    /\ response.op = "health"
    /\ response.body[1].models = [parakeet |-> TRUE, canary |-> FALSE]
    /\ \E j \in DOMAIN jobs : jobs[j].status = "failed"

\* C23: a model key is loaded at most once: the cache holds a model exactly
\* when one load of it returned, a call for a cached key returns it without
\* loading, and a call for an unknown key raises and leaves the cache alone.
C23_ModelLoadedAtMostOnce ==
    /\ \A k \in SUPPORTED_MODELS :
         /\ loads[k] <= 1
         /\ asr_models[k] <=> loads[k] = 1
         /\ asr_models[k] =>
              \A o \in LoadOutcomes :
                get_or_load_model(asr_models, k, o) =
                  [models |-> asr_models, loaded |-> FALSE, raised |-> None]
    /\ \A k \in ModelInputs \ SUPPORTED_MODELS, o \in LoadOutcomes :
         LET r == get_or_load_model(asr_models, k, o) IN
           r.models = asr_models /\ ~r.loaded /\ r.raised # None

C23_Witness ==
    /\ loads["canary"] = 1
    /\ \A j \in JobIds :
         /\ j \in DOMAIN jobs
         /\ jobs[j].status = "completed"
         /\ jobs[j].result[1].model = "canary"

\* C25: a job record is never removed from the store, and its job_id,
\* filename and created_at never change.
C25_JobRecordsAreKept ==
    [][\A j \in DOMAIN jobs :
         /\ j \in DOMAIN jobs'
         /\ jobs'[j].job_id = jobs[j].job_id
         /\ jobs'[j].filename = jobs[j].filename
         /\ jobs'[j].created_at = jobs[j].created_at]_vars

C25_Witness ==
    \E j, k \in DOMAIN jobs :
      /\ jobs[j].status = "failed" /\ tasks[j].pc = "done"
      /\ jobs[k].status = "cancelled" /\ tasks[k].pc = "done"

\* a temp file of the /transcribe endpoint
SyncTempFiles == {f \in files : f.kind \in {"sync_upload", "sync_wav"}}

\* C26: once a /transcribe request has been answered and the cleanups it
\* scheduled have run, no temp file of the endpoint exists.
C26_SyncEndpointLeavesNoTempFile ==
    (sync_call = None /\ cleanups = <<>> /\ response.op # "transcribe") =>
      SyncTempFiles = {}

C24_CanaryLanguageSupportedAndEchoed ==
    [][/\ \A j \in DOMAIN tasks' :
            tasks'[j].pc # "done" =>
              /\ tasks'[j].exc # Some(<<"ValueError", "Unsupported language">>)
              /\ tasks'[j].model_key = "canary" =>
                   /\ tasks'[j].language # None
                   /\ tasks'[j].language[1] \in SUPPORTED_LANGUAGES
       /\ \A j \in DOMAIN tasks' \ DOMAIN tasks :
            /\ response'.op = "submit"
            /\ tasks'[j].model_key = response'.request.model
            /\ tasks'[j].language =
                 IF tasks'[j].model_key = "canary" /\ response'.request.language = None
                 THEN Some("en") ELSE response'.request.language
       /\ \A j \in DOMAIN jobs :
            (jobs[j].status # "completed" /\ jobs'[j].status = "completed") =>
              /\ jobs'[j].result # None
              /\ jobs'[j].result[1].model = tasks[j].model_key
              /\ jobs'[j].result[1].language = tasks[j].language]_vars

C24_Witness ==
    \E j, k \in DOMAIN jobs :
      /\ jobs[j].status = "completed"
      /\ jobs[j].result[1].model = "canary"
      /\ jobs[j].result[1].language = Some("es")
      /\ jobs[k].status = "completed"
      /\ jobs[k].result[1].model = "canary"
      /\ jobs[k].result[1].language = Some("en")

\* the lines that read or write the job map
AccessLines ==
    [c \in Coroutines |->
       CASE c = "submit" -> {"537"}
         [] c = "task" -> {"254", "260", "274", "315", "371", "372", "373",
                           "400", "401", "402"}
         [] c = "status" -> {"574"} \cup {CopyLine(i) : i \in DOMAIN CopiedFields}
         [] c = "result" -> {"593", "598", "607"}
         [] c = "cancel" -> {"628", "633", "640", "641"}]

\* a record none of whose multi-field updates is half done
WholeRecord(job) ==
    /\ job.status \in {"pending", "processing"} =>
         job.completed_at = None /\ job.result = None /\ job.error = None
    /\ job.status = "cancelled" => job.completed_at # None
    /\ job.status = "completed" => job.completed_at # None /\ job.result # None
    /\ job.status = "failed" => job.completed_at # None /\ job.error # None

\* C22: a coroutine about to read or write the job map holds jobs_lock; at
\* most one coroutine holds it; and what a reader gets is a whole record: a
\* finished status copy is not half updated, and the result handler never
\* finds a completed job without its result or a failed one without its error.
C22_JobMapAccessedUnderLock ==
    /\ \A c \in Coroutines : at[c] \in AccessLines[c] => c \in holders
    /\ Cardinality(holders) <= 1
    /\ jobs_lock <=> holders # {}
    /\ ~jobs_lock => \A j \in DOMAIN jobs : WholeRecord(jobs[j])
    /\ (seen["status"].code = 200 /\ at["status"] \in {"exit", "573"}) =>
         WholeRecord(seen["status"].body[1])
    /\ seen["result"].code = 500 =>
         seen["result"].body = LockError

C22_Witness ==
    /\ at["task"] = "373"
    /\ at["cancel"] = "627"
    /\ seen["cancel"].code = 200
    /\ seen["status"].code = 200
    /\ seen["status"].body[1].status = "cancelled"

InLog(line) == \E i \in DOMAIN voice_log : voice_log[i] = line

\* C29: when ASR inference raises for an audio message, the first of the
\* connection included, the handler sends a transcript message with an empty
\* transcript and goes on with its loop.
C29_AsrErrorSendsEmptyTranscript ==
    InLog("ASR error") =>
      /\ voice_pc \notin HandlerEnds
      /\ voice_sent # <<>>
      /\ voice_sent[1] = [type |-> "transcript", text |-> ""]

\* C30: the chat history never holds more than 20 entries and always an even
\* number of them, the user and assistant entries of the most recent replies
\* in order; a failed LLM call leaves it unchanged and clear_history empties
\* it.
C30_ChatHistoryBounded ==
    [][/\ Len(chat_history') <= HistoryLimit
       /\ Len(chat_history') % 2 = 0
       /\ \A i \in DOMAIN chat_history' :
            /\ chat_history'[i].role = IF i % 2 = 1 THEN "user" ELSE "assistant"
            /\ chat_history'[i].content = turn' - ((Len(chat_history') - i) \div 2)
       /\ (voice_pc = "llm" /\ voice_log'[Len(voice_log')] = "LLM error") =>
            chat_history' = chat_history
       /\ (voice_pc = "receive" /\ voice_log' = <<"Chat history cleared">>) =>
            chat_history' = <<>>]_vars

C30_Witness ==
    /\ Len(chat_history) = HistoryLimit
    /\ turn > HistoryLimit \div 2
    /\ chat_history[1] = [role |-> "user", content |-> turn - (HistoryLimit \div 2) + 1]
    /\ voice_pc = "receive"

\* a forwarding direction of the proxy has left its loop
DirectionEnded == c2b \in {"close", "done"} \/ b2c = "done"

\* C28: once a forwarding direction of the Moshi proxy has ended, stop_event
\* is set, and eventually the other direction has ended too, the backend
\* connection and the client WebSocket are closed and the handler is done.
C28_ProxyShutsDown ==
    /\ [](DirectionEnded => stop_event)
    /\ DirectionEnded ~>
         (/\ c2b = "done" /\ b2c = "done"
          /\ ws_backend = "closed" /\ ws_client = "closed"
          /\ proxy_pc = "done")

C28_Witness ==
    /\ proxy_pc = "done"
    /\ c2b = "done" /\ b2c = "done"
    /\ client_peer = "up" /\ backend_peer = "gone"
    /\ frames_up > 0 /\ frames_down > 0
====
